---- MODULE Spec2Model ----
(***************************************************************************)
(* Model of the medical-share-pro server: the share-link manager of        *)
(* server/storage.ts (DatabaseStorage) and the document routes of          *)
(* server/routes.ts.  Every await of a handler is a point where another    *)
(* request may run, so a handler is a sequence of atomic steps.            *)
(***************************************************************************)
EXTENDS Integers, Sequences, FiniteSets, Bags, TLC

(***************************************************************************)
(* Bounds of the model.                                                    *)
(***************************************************************************)
\* documents that are uploaded
MaxDocs == 1
\* share links that are created
MaxLinks == 1
\* clock advances
MaxTicks == 2
\* requests in flight at the same time: on share links, and on the document pipeline
MaxReqs == 2
\* accessCount a link is taken to
MaxAccessCount == 2
\* appointments that are created
MaxAppts == 2

(***************************************************************************)
(* Nullable columns: None is SQL NULL / undefined, Some(v) a value.        *)
(***************************************************************************)
None == << >>
Some(v) == << v >>
Val(o) == o[1]

\* the users who send requests, and those among them who upload documents
Users == {1, 2}
Uploaders == {1}

\* the 2FA columns of a new row of users: totp_secret null, both flags false
NewUser == [totpSecret |-> None, totpEnabled |-> FALSE, totpVerified |-> FALSE]

\* 24 * 60 * 60 * 1000, the milliseconds createShareLink adds per day
DayMs == 86400000

\* request bodies POST /api/documents/:id/share passes on unvalidated
ExpiresInDaysInputs == {None, Some(0), Some(1)}
MaxAccessesInputs == {None, Some(0), Some(1), Some(2)}

\* clock advances between two steps: one day
TickSteps == {DayMs}

VARIABLES
    documents,      \* table documents: id -> row
    shareLinks,     \* table share_links: id -> row
    now,            \* the clock, Date.now()
    ticks,          \* number of clock advances so far
    shareReq,       \* bag of the GET /api/shared/:token requests in flight: their locals
    granted,        \* share link id -> number of requests answered with the document
    revokeAsked,    \* share link ids whose owner asked for revocation
    ocrReq,         \* bag of the POST /api/documents/:id/process-ocr requests in flight
    sumReq,         \* bag of the POST /api/documents/:id/summarize requests in flight
    appointments,   \* table appointments: id -> row
    apptSerial,     \* the last id the serial column of appointments gave out
    apptReq,        \* bag of the PATCH and DELETE /api/appointments/:id requests in flight
    users,          \* table users: id -> the 2FA columns of the row
    totpReq,        \* bag of the POST /api/2fa/setup and /api/2fa/verify requests in flight
    sent            \* the response the latest step sent, if it sent one

shareVars == << shareLinks, now, ticks, shareReq, granted, revokeAsked >>
pipeVars == << ocrReq, sumReq >>
apptVars == << appointments, apptSerial, apptReq >>
totpVars == << users, totpReq >>
vars == << documents, shareVars, pipeVars, apptVars, totpVars, sent >>

DocIds == DOMAIN documents
LinkIds == DOMAIN shareLinks

\* randomBytes(32).toString('hex'): one fresh token per link
TokenOf(id) == 1000 + id
\* the tokens a request may carry: those of the links and one of no link
Tokens == { TokenOf(id) : id \in 1 .. (MaxLinks + 1) }

(***************************************************************************)
(* HTTP responses: status, JSON message, JSON document.                    *)
(***************************************************************************)
Response(status, message, document) ==
    [status |-> status, message |-> message, document |-> document]
NoResponse == Response(0, "", None)
SharedNotFound == Response(404, "Document not found or link expired", None)
SharedFailed == Response(500, "Failed to fetch shared document", None)
DocNotFound == Response(404, "Document not found", None)
NoOcrText == Response(400, "No OCR text available for summarization", None)

\* a response on its way: the route, and for a share link why the checks of
\* getSharedDocument ended as they did
Sent(route, cause, response) == [route |-> route, cause |-> cause, response |-> response]
NothingSent == Sent("none", "none", NoResponse)

\* requests in flight: a request joins the bag, moves on, or leaves it
Join(bag, q) == bag (+) SetToBag({q})
Leave(bag, q) == bag (-) SetToBag({q})
Move(bag, q, p) == Join(Leave(bag, q), p)
InFlight(bag) == BagToSet(bag)

\* what an awaited call gives its caller: a value, or an exception
Returned(v) == [threw |-> FALSE, isError |-> FALSE, value |-> v]
\* isError: the thrown value is an instance of Error, value its message
Threw(isError, message) == [threw |-> TRUE, isError |-> isError, value |-> message]

(***************************************************************************)
(* POST /api/documents                                                     *)
(***************************************************************************)
\* req.body.ocrText of the multipart form: absent, or text the client extracted
UploadTexts == { None, Some(<< "a" >>) }

\* the form fields of the upload that the model follows
UploadBody(ocrText) ==
    IF ocrText = None THEN << >> ELSE [ocrText |-> Val(ocrText)]

\* createInsertSchema(documents).omit({...}): zod strips the keys it does not know
OmittedDocumentFields == { "id", "userId", "uploadedAt", "ocrText", "ocrStatus", "ocrError" }
InsertDocumentSchemaParse(body) ==
    [f \in DOMAIN body \ OmittedDocumentFields |-> body[f]]

\* createDocument(userId, { ...docData, ocrStatus: 'pending', ocrError: null }):
\* a column the values do not name gets its default, null for ocr_text
NewDocument(userId, docData) ==
    [userId |-> userId,
     ocrText |-> IF "ocrText" \in DOMAIN docData THEN Some(docData["ocrText"]) ELSE None,
     ocrStatus |-> "pending", ocrError |-> None,
     summary |-> None, summaryStatus |-> "none", summaryError |-> None]

Upload(user, ocrText) ==
    /\ Cardinality(DocIds) < MaxDocs
    /\ LET id == Cardinality(DocIds) + 1
           row == NewDocument(user, InsertDocumentSchemaParse(UploadBody(ocrText)))
       IN  /\ documents' = [d \in DocIds \cup {id} |->
                               IF d \in DocIds THEN documents[d] ELSE row]
           /\ sent' = Sent("upload", "none", Response(201, "", Some(row)))
    /\ UNCHANGED << shareVars, pipeVars, apptVars, totpVars >>

(***************************************************************************)
(* DatabaseStorage.getDocument and the owner check of the document routes  *)
(***************************************************************************)
GetDocument(id) == IF id \in DocIds THEN Some(documents[id]) ELSE None

\* mutant of NotOwned: the owner is not compared with the caller
NotOwned_AnyCaller(doc, user) == doc = None

\* !doc || doc.userId !== req.user.id
NotOwned(doc, user) == doc = None \/ Val(doc).userId # user

\* the ids a request may name: the stored documents and one that is not stored
RequestedDocIds == 1 .. (MaxDocs + 1)

(***************************************************************************)
(* DatabaseStorage.createShareLink and POST /api/documents/:id/share       *)
(***************************************************************************)
\* JavaScript truthiness of a nullable number: null, undefined and 0 are falsy
TruthyNum(o) == o # None /\ Val(o) # 0

ExpiresAtFor(expiresInDays, t) ==
    IF TruthyNum(expiresInDays) THEN Some(t + Val(expiresInDays) * DayMs) ELSE None

NewShareLink(id, documentId, expiresInDays, maxAccesses, t) ==
    [id |-> id, documentId |-> documentId, token |-> TokenOf(id),
     expiresAt |-> ExpiresAtFor(expiresInDays, t),
     accessCount |-> 0, maxAccesses |-> maxAccesses]

CreateShareLink(user, documentId, expiresInDays, maxAccesses) ==
    /\ Cardinality(LinkIds) < MaxLinks
    /\ IF NotOwned(GetDocument(documentId), user)
       THEN /\ sent' = Sent("share", "none", DocNotFound)
            /\ UNCHANGED << shareLinks, granted >>
       ELSE LET id == Cardinality(LinkIds) + 1
                link == NewShareLink(id, documentId, expiresInDays, maxAccesses, now)
            IN  /\ shareLinks' = [l \in LinkIds \cup {id} |->
                                    IF l \in LinkIds THEN shareLinks[l] ELSE link]
                /\ granted' = [l \in LinkIds \cup {id} |->
                                    IF l \in LinkIds THEN granted[l] ELSE 0]
                /\ sent' = Sent("share", "none",
                                Response(201, "", Some(link)))
    /\ UNCHANGED << documents, now, ticks, shareReq, revokeAsked, pipeVars, apptVars, totpVars >>

(***************************************************************************)
(* DatabaseStorage.getSharedDocument and GET /api/shared/:token            *)
(***************************************************************************)
\* the inner join of documents and share_links on the token
JoinByToken(token) ==
    { l \in LinkIds : shareLinks[l].token = token /\ shareLinks[l].documentId \in DocIds }

\* mutant of IsExpired: the comparison the wrong way round
IsExpired_Reversed(link, t) == link.expiresAt # None /\ Val(link.expiresAt) > t

\* shareLink.expiresAt && new Date(shareLink.expiresAt) < new Date()
IsExpired(link, t) == link.expiresAt # None /\ Val(link.expiresAt) < t

\* mutant of MaxAccessesReached: > where the code has >=
MaxAccessesReached_OffByOne(link) ==
    TruthyNum(link.maxAccesses) /\ link.accessCount > Val(link.maxAccesses)

\* shareLink.maxAccesses && shareLink.accessCount >= shareLink.maxAccesses
MaxAccessesReached(link) ==
    TruthyNum(link.maxAccesses) /\ link.accessCount >= Val(link.maxAccesses)

\* why getSharedDocument returns undefined for the joined row, or "ok"
CheckShareLink(link, t) ==
    IF IsExpired(link, t) THEN "expired"
    ELSE IF MaxAccessesReached(link) THEN "exhausted"
    ELSE "ok"

\* the outcome of the select and the two checks for a token
CheckToken(token) ==
    IF JoinByToken(token) = {} THEN "absent"
    ELSE CheckShareLink(shareLinks[CHOOSE l \in JoinByToken(token) : TRUE], now)

\* mutant of GetSharedDocumentReturn: an expired link throws
GetSharedDocumentReturn_ExpiredThrows(why, document) ==
    IF why = "ok" THEN Returned(document)
    ELSE IF why = "expired" THEN Threw(TRUE, "Link expired")
    ELSE Returned(None)

\* what getSharedDocument returns: undefined for every failing case
GetSharedDocumentReturn(why, document) ==
    IF why = "ok" THEN Returned(document) ELSE Returned(None)

\* GET /api/shared/:token answers on what getSharedDocument gave
SharedResponse(outcome) ==
    IF outcome.threw THEN SharedFailed
    ELSE IF outcome.value = None THEN SharedNotFound
    ELSE Response(200, "", outcome.value)

\* the locals of a request after the select and the two checks passed: the
\* token, of the share link its id, and the document
AfterShareRead(token) ==
    LET link == shareLinks[CHOOSE l \in JoinByToken(token) : TRUE] IN
    [token |-> token, shareLink |-> link.id, document |-> Some(documents[link.documentId])]

\* mutant of IncrementShareLinkAccess: writes the count a request computed from
\* the row it read before any access, instead of adding in the database
IncrementShareLinkAccess_FromStaleRead(links, id) ==
    [l \in DOMAIN links |->
        IF l = id THEN [links[l] EXCEPT !.accessCount = 1] ELSE links[l]]

\* DatabaseStorage.incrementShareLinkAccess: UPDATE ... SET access_count = access_count + 1
IncrementShareLinkAccess(links, id) ==
    [l \in DOMAIN links |->
        IF l = id THEN [links[l] EXCEPT !.accessCount = @ + 1] ELSE links[l]]

\* the requests in flight that passed the checks of link l
CheckedFor(l) == { q \in InFlight(shareReq) : q.shareLink = l }
CheckedCount(l) == IF CheckedFor(l) = {} THEN 0 ELSE CopiesIn(CHOOSE q \in CheckedFor(l) : TRUE, shareReq)

\* a request that will be granted is started only while the link's accessCount
\* and the increments still to come stay below the bound
BelowAccessBound(token) ==
    CheckToken(token) = "ok" =>
        \A l \in JoinByToken(token) :
            shareLinks[l].accessCount + CheckedCount(l) < MaxAccessCount

\* getSharedDocument up to "await this.incrementShareLinkAccess(...)"; a
\* request that fails a check is answered here
ShareRead(token) ==
    /\ BagCardinality(shareReq) < MaxReqs
    /\ BelowAccessBound(token)
    /\ LET why == CheckToken(token) IN
         IF why = "ok"
         THEN /\ shareReq' = Join(shareReq, AfterShareRead(token))
              /\ sent' = NothingSent
         ELSE /\ sent' = Sent("shared", why,
                              SharedResponse(GetSharedDocumentReturn(why, None)))
              /\ UNCHANGED shareReq
    /\ UNCHANGED << documents, shareLinks, now, ticks, granted, revokeAsked, pipeVars, apptVars, totpVars >>

\* the increment, the return of the document and the 200 answer
ShareIncrement(q) ==
    /\ q \in InFlight(shareReq)
    /\ shareLinks' = IncrementShareLinkAccess(shareLinks, q.shareLink)
    /\ granted' = [granted EXCEPT ![q.shareLink] = @ + 1]
    /\ sent' = Sent("shared", "ok",
                    SharedResponse(GetSharedDocumentReturn("ok", q.document)))
    /\ shareReq' = Leave(shareReq, q)
    /\ UNCHANGED << documents, now, ticks, revokeAsked, pipeVars, apptVars, totpVars >>

\* one whole GET /api/shared/:token with no other request in between
ShareResolve(token) ==
    /\ BelowAccessBound(token)
    /\ LET why == CheckToken(token) IN
         IF why = "ok"
         THEN LET q == AfterShareRead(token) IN
                  /\ shareLinks' = IncrementShareLinkAccess(shareLinks, q.shareLink)
                  /\ granted' = [granted EXCEPT ![q.shareLink] = @ + 1]
                  /\ sent' = Sent("shared", "ok",
                          SharedResponse(GetSharedDocumentReturn("ok", q.document)))
         ELSE /\ sent' = Sent("shared", why,
                              SharedResponse(GetSharedDocumentReturn(why, None)))
              /\ UNCHANGED << shareLinks, granted >>
    /\ UNCHANGED << documents, now, ticks, shareReq, revokeAsked, pipeVars, apptVars, totpVars >>

(***************************************************************************)
(* Revocation: IStorage has no method that deletes a share link and        *)
(* registerRoutes no route for it, so the owner's request stores nothing.  *)
(***************************************************************************)
RevokeShareLink(user, id) ==
    /\ id \in LinkIds
    /\ id \notin revokeAsked
    /\ documents[shareLinks[id].documentId].userId = user
    /\ revokeAsked' = revokeAsked \cup {id}
    /\ sent' = NothingSent
    /\ UNCHANGED << documents, shareLinks, now, ticks, shareReq, granted, pipeVars, apptVars, totpVars >>

(***************************************************************************)
(* The clock.                                                              *)
(***************************************************************************)
Tick(step) ==
    /\ ticks < MaxTicks
    /\ now' = now + step
    /\ ticks' = ticks + 1
    /\ sent' = NothingSent
    /\ UNCHANGED << documents, shareLinks, shareReq, granted, revokeAsked, pipeVars, apptVars, totpVars >>

(***************************************************************************)
(* Text: a string is a sequence of characters.                             *)
(***************************************************************************)
IsWhitespace(c) == c = " "

RECURSIVE TrimStart(_)
TrimStart(str) ==
    IF str # << >> /\ IsWhitespace(Head(str)) THEN TrimStart(Tail(str)) ELSE str

RECURSIVE TrimEnd(_)
TrimEnd(str) ==
    IF str # << >> /\ IsWhitespace(str[Len(str)])
    THEN TrimEnd(SubSeq(str, 1, Len(str) - 1)) ELSE str

\* String.prototype.trim
Trim(str) == TrimEnd(TrimStart(str))

\* JavaScript truthiness of a nullable string: null, undefined and '' are falsy
TruthyText(o) == o # None /\ Val(o) # << >>

\* what worker.recognize may give as result.data.text
OcrTexts == { << >>, <<" ">>, <<" ", "b">> }

\* what the tesseract worker does: text, an Error, a rejection that is no Error
OcrOutcomes ==
    { Returned(Some(t)) : t \in OcrTexts } \cup
    { Threw(TRUE, "Worker failed"), Threw(FALSE, "recognize rejected") }

\* what the chat completion does: content for the prompt, no content, an Error
SummaryOutcomes == { "content", "empty", "error" }

(***************************************************************************)
(* POST /api/documents/:id/process-ocr                                     *)
(***************************************************************************)
\* getDocument and the owner check
OcrRead(user, id) ==
    /\ BagCardinality(ocrReq (+) sumReq) < MaxReqs
    /\ IF NotOwned(GetDocument(id), user)
       THEN /\ sent' = Sent("ocr", "none", DocNotFound)
            /\ UNCHANGED ocrReq
       ELSE /\ ocrReq' = Join(ocrReq, [pc |-> "read", id |-> id])
            /\ sent' = NothingSent
    /\ UNCHANGED << documents, shareVars, apptVars, totpVars, sumReq >>

\* mutant of MarkOcrProcessing: the error of the failed run is left in place
MarkOcrProcessing_KeepsError(row) == [row EXCEPT !.ocrStatus = "processing"]

\* updateDocument(doc.id, { ocrStatus: 'processing', ocrError: null })
MarkOcrProcessing(row) == [row EXCEPT !.ocrStatus = "processing", !.ocrError = None]

\* the first update; the handler goes on to createWorker and worker.recognize
OcrMarkProcessing(q) ==
    /\ q \in InFlight(ocrReq)
    /\ q.pc = "read"
    /\ documents' = [documents EXCEPT ![q.id] = MarkOcrProcessing(@)]
    /\ ocrReq' = Move(ocrReq, q, [q EXCEPT !.pc = "recognizing"])
    /\ sent' = NothingSent
    /\ UNCHANGED << shareVars, apptVars, totpVars, sumReq >>

\* mutant of NoTextExtracted: the text is not trimmed before the test
NoTextExtracted_NoTrim(text) == ~TruthyText(text)

\* !result.data.text || result.data.text.trim() === ''
NoTextExtracted(text) == ~TruthyText(text) \/ Trim(Val(text)) = << >>

\* the inner try block up to the second update: the text, or what is thrown
OcrResult(outcome) ==
    IF outcome.threw THEN outcome
    ELSE IF NoTextExtracted(outcome.value)
         THEN Threw(TRUE, "No text could be extracted from document")
         ELSE outcome

\* mutant of OcrErrorMessage: no fallback text for a thrown value that is no Error
OcrErrorMessage_NoFallback(thrown) ==
    IF thrown.isError THEN thrown.value ELSE ""

\* ocrError instanceof Error ? ocrError.message : 'Failed to process document'
OcrErrorMessage(thrown) ==
    IF thrown.isError THEN thrown.value ELSE "Failed to process document"

\* mutant of OcrFinalUpdate: the text is stored trimmed
OcrFinalUpdate_StoresTrimmed(row, result) ==
    IF result.threw
    THEN [row EXCEPT !.ocrStatus = "error", !.ocrError = Some(OcrErrorMessage(result))]
    ELSE [row EXCEPT !.ocrText = Some(Trim(Val(result.value))),
                     !.ocrStatus = "completed", !.ocrError = None]

\* mutant of OcrFinalUpdate: the catch block stores nothing
OcrFinalUpdate_CatchStoresNothing(row, result) ==
    IF result.threw THEN row
    ELSE [row EXCEPT !.ocrText = result.value, !.ocrStatus = "completed",
                     !.ocrError = None]

\* mutant of OcrFinalUpdate: the success update names the status and not the text
OcrFinalUpdate_StatusOnly(row, result) ==
    IF result.threw
    THEN [row EXCEPT !.ocrStatus = "error", !.ocrError = Some(OcrErrorMessage(result))]
    ELSE [row EXCEPT !.ocrStatus = "completed", !.ocrError = None]

\* mutant of OcrFinalUpdate: the catch block clears the text of the earlier run
OcrFinalUpdate_FailureClearsText(row, result) ==
    IF result.threw
    THEN [row EXCEPT !.ocrText = None, !.ocrStatus = "error",
                     !.ocrError = Some(OcrErrorMessage(result))]
    ELSE [row EXCEPT !.ocrText = result.value, !.ocrStatus = "completed",
                     !.ocrError = None]

\* the update of the try block, or the one of its catch block
OcrFinalUpdate(row, result) ==
    IF result.threw
    THEN [row EXCEPT !.ocrStatus = "error", !.ocrError = Some(OcrErrorMessage(result))]
    ELSE [row EXCEPT !.ocrText = result.value, !.ocrStatus = "completed",
                     !.ocrError = None]

\* res.json(updated), or res.status(500).json({ message: error })
OcrResponse(row, result) ==
    IF result.threw THEN Response(500, OcrErrorMessage(result), None)
    ELSE Response(200, "", Some(row))

\* the worker answers; the second update and the response
OcrFinish(q, outcome) ==
    /\ q \in InFlight(ocrReq)
    /\ q.pc = "recognizing"
    /\ LET id == q.id
           result == OcrResult(outcome)
           row == OcrFinalUpdate(documents[id], result)
       IN  /\ documents' = [documents EXCEPT ![id] = row]
           /\ sent' = Sent("ocr", "none", OcrResponse(row, result))
    /\ ocrReq' = Leave(ocrReq, q)
    /\ UNCHANGED << shareVars, apptVars, totpVars, sumReq >>

(***************************************************************************)
(* POST /api/documents/:id/summarize                                       *)
(***************************************************************************)
\* completion.choices[0]?.message?.content for a prompt built from the text
SummaryOf(text) == << "summary of" >> \o text

\* getDocument, the owner check and the !document.ocrText check
SumRead(user, id) ==
    /\ BagCardinality(ocrReq (+) sumReq) < MaxReqs
    /\ LET document == GetDocument(id) IN
         IF NotOwned(document, user)
         THEN /\ sent' = Sent("summarize", "none", DocNotFound)
              /\ UNCHANGED sumReq
         ELSE IF ~TruthyText(Val(document).ocrText)
         THEN /\ sent' = Sent("summarize", "none", NoOcrText)
              /\ UNCHANGED sumReq
         ELSE /\ sumReq' = Join(sumReq,
                    [pc |-> "read", id |-> id, ocrText |-> Val(document).ocrText])
              /\ sent' = NothingSent
    /\ UNCHANGED << documents, shareVars, apptVars, totpVars, ocrReq >>

\* updateDocument(documentId, { summaryStatus: "processing", summaryError: null })
MarkSummaryProcessing(row) ==
    [row EXCEPT !.summaryStatus = "processing", !.summaryError = None]

\* the first update; the handler goes on to openai.chat.completions.create
SumMarkProcessing(q) ==
    /\ q \in InFlight(sumReq)
    /\ q.pc = "read"
    /\ documents' = [documents EXCEPT ![q.id] = MarkSummaryProcessing(@)]
    /\ sumReq' = Move(sumReq, q, [q EXCEPT !.pc = "summarizing"])
    /\ sent' = NothingSent
    /\ UNCHANGED << shareVars, apptVars, totpVars, ocrReq >>

\* mutant of SummaryResult: a completion without content is no failure
SummaryResult_EmptyAccepted(outcome, text) ==
    IF outcome = "error" THEN Threw(TRUE, "Completion failed")
    ELSE IF outcome = "empty" THEN Returned(None)
    ELSE Returned(Some(SummaryOf(text)))

\* the try block up to the second update: the summary, or what is thrown
SummaryResult(outcome, text) ==
    IF outcome = "error" THEN Threw(TRUE, "Completion failed")
    ELSE IF outcome = "empty" THEN Threw(TRUE, "Failed to generate summary")
    ELSE Returned(Some(SummaryOf(text)))

\* the update of the try block, or the one of the catch block
SumFinalUpdate(row, result) ==
    IF result.threw
    THEN [row EXCEPT !.summaryStatus = "error", !.summaryError = Some(result.value)]
    ELSE [row EXCEPT !.summary = result.value, !.summaryStatus = "completed",
                     !.summaryError = None]

\* res.json(updated), or res.status(500).json({ message })
SumResponse(row, result) ==
    IF result.threw THEN Response(500, result.value, None)
    ELSE Response(200, "", Some(row))

\* the completion answers; the second update and the response
SumFinish(q, outcome) ==
    /\ q \in InFlight(sumReq)
    /\ q.pc = "summarizing"
    /\ LET id == q.id
           result == SummaryResult(outcome, Val(q.ocrText))
           row == SumFinalUpdate(documents[id], result)
       IN  /\ documents' = [documents EXCEPT ![id] = row]
           /\ sent' = Sent("summarize", "none", SumResponse(row, result))
    /\ sumReq' = Leave(sumReq, q)
    /\ UNCHANGED << shareVars, apptVars, totpVars, ocrReq >>

(***************************************************************************)
(* GET /api/documents: the search over the caller's documents.             *)
(***************************************************************************)
HourMs == 3600000

\* String.prototype.toLowerCase, on the letters the model uses
ToLowerCaseChar(c) ==
    CASE c = "A" -> "a"
      [] c = "B" -> "b"
      [] c = "C" -> "c"
      [] OTHER -> c
ToLowerCase(str) == [i \in 1 .. Len(str) |-> ToLowerCaseChar(str[i])]

\* String.prototype.includes
StringIncludes(str, sub) ==
    \E i \in 0 .. (Len(str) - Len(sub)) :
        \A j \in 1 .. Len(sub) : str[i + j] = sub[j]

\* Array.prototype.includes
ArrayIncludes(arr, x) == \E i \in 1 .. Len(arr) : arr[i] = x

\* the offset of a time zone from UTC; local time is UTC time plus the offset
ZoneOffsets == { 0, 2 * HourMs }

\* end.setHours(23, 59, 59, 999): the last millisecond of the day that the
\* instant falls on in the local time of the process
SetHoursEndOfDay(instant, zone) ==
    (((instant + zone) \div DayMs) * DayMs + (DayMs - 1)) - zone

\* searchParams.startDate.toISOString(): the calendar gives midnight of the
\* picked day in the local time of the browser; the string names that instant
ToISOString(day, zone) == day * DayMs - zone

\* mutant of GetUserDocuments: the rows of every user
GetUserDocuments_AllUsers(userId) == documents

\* DatabaseStorage.getUserDocuments
GetUserDocuments(userId) ==
    SelectSeq(documents, LAMBDA doc : doc.userId = userId)

\* if (query): doc.name or doc.ocrText includes the query, in lower case
MatchesQuery(doc, query) ==
    LET searchQuery == ToLowerCase(query)
    IN  \/ StringIncludes(ToLowerCase(doc.name), searchQuery)
        \/ /\ TruthyText(doc.ocrText)
           /\ StringIncludes(ToLowerCase(Val(doc.ocrText)), searchQuery)

\* mutant of MatchesTags: one requested tag is enough
MatchesTags_AnyTag(doc, searchTags) ==
    \E i \in 1 .. Len(searchTags) : ArrayIncludes(doc.tags, searchTags[i])

\* if (tags): searchTags.every(tag => doc.tags.includes(tag))
MatchesTags(doc, searchTags) ==
    \A i \in 1 .. Len(searchTags) : ArrayIncludes(doc.tags, searchTags[i])

\* the five filters of the handler, each applied when its parameter is truthy
KeptBySearch(doc, p) ==
    /\ TruthyText(p.query) => MatchesQuery(doc, Val(p.query))
    /\ TruthyText(p.category) => doc.category = Val(p.category)
    /\ p.tags # None => MatchesTags(doc, Val(p.tags))
    /\ p.startDate # None => doc.uploadedAt >= Val(p.startDate)
    /\ p.endDate # None => doc.uploadedAt <= SetHoursEndOfDay(Val(p.endDate), p.zone)

\* filteredDocs after the last filter; Array.prototype.filter keeps the order
SearchDocuments(p) ==
    SelectSeq(GetUserDocuments(p.user), LAMBDA doc : KeptBySearch(doc, p))

\* a search request: the caller, the query parameters, the zone of the server
SearchRequest(user, query, category, tags, startDate, endDate, zone) ==
    [user |-> user, query |-> query, category |-> category, tags |-> tags,
     startDate |-> startDate, endDate |-> endDate, zone |-> zone]

\* res.json(filteredDocs); the request is kept with the response
Search(p) ==
    /\ sent = NothingSent
    /\ sent' = Sent("search", p, Response(200, "", SearchDocuments(p)))
    /\ UNCHANGED << documents, shareVars, pipeVars, apptVars, totpVars >>

(***************************************************************************)
(* GET /api/documents/:id/share                                            *)
(***************************************************************************)
\* DatabaseStorage.getDocumentShareLinks: the rows of share_links of a document
GetDocumentShareLinks(documentId) ==
    { shareLinks[l] : l \in { k \in LinkIds : shareLinks[k].documentId = documentId } }

\* the request that a response answers: the caller and the id in the path
Caller(user, id) == [user |-> user, id |-> id]

ListShareLinks(user, documentId) ==
    /\ sent' = IF NotOwned(GetDocument(documentId), user)
               THEN Sent("share-list", Caller(user, documentId), DocNotFound)
               ELSE Sent("share-list", Caller(user, documentId),
                         Response(200, "", GetDocumentShareLinks(documentId)))
    /\ UNCHANGED << documents, shareVars, pipeVars, apptVars, totpVars >>

(***************************************************************************)
(* POST /api/appointments, PATCH and DELETE /api/appointments/:id          *)
(***************************************************************************)
ApptIds == DOMAIN appointments

\* the ids a request may name: those the serial column gives out and one more
RequestedApptIds == 1 .. (MaxAppts + 1)

\* res.sendStatus(404), res.sendStatus(204)
ApptNotFound == Response(404, "Not Found", None)
NoContent == Response(204, "No Content", None)

\* insertAppointmentSchema.parse(req.body): the title, and documentIds, which
\* nothing compares with the documents that are stored
NewAppointmentBodies ==
    { [title |-> "visit", documentIds |-> ds] : ds \in { None, Some(<< 1 >>) } }

\* insertAppointmentSchema.partial().parse(req.body): the fields a PATCH names
PatchBodies == { [title |-> "lab"] }

\* DatabaseStorage.getAppointment
GetAppointment(id) == IF id \in ApptIds THEN Some(appointments[id]) ELSE None

\* insert into appointments values ({ ...appt, userId }) returning the row
NewAppointment(id, userId, appt) ==
    [id |-> id, userId |-> userId, title |-> appt.title, documentIds |-> appt.documentIds]

CreateAppointment(user, body) ==
    /\ apptSerial < MaxAppts
    /\ LET id == apptSerial + 1
           row == NewAppointment(id, user, body)
       IN  /\ appointments' = [a \in ApptIds \cup {id} |->
                                  IF a \in ApptIds THEN appointments[a] ELSE row]
           /\ apptSerial' = id
           /\ sent' = Sent("appointment-create", "none", Response(201, "", Some(row)))
    /\ UNCHANGED << documents, shareVars, pipeVars, apptReq, totpVars >>

\* getAppointment and the owner check of PATCH
PatchAppointmentRead(user, id, body) ==
    /\ BagCardinality(apptReq) < MaxReqs
    /\ LET appt == GetAppointment(id) IN
         IF NotOwned(appt, user)
         THEN /\ sent' = Sent("appointment-patch", "none", ApptNotFound)
              /\ UNCHANGED apptReq
         ELSE /\ apptReq' = Join(apptReq, [op |-> "patch", id |-> Val(appt).id, body |-> body])
              /\ sent' = NothingSent
    /\ UNCHANGED << documents, shareVars, pipeVars, appointments, apptSerial, totpVars >>

\* update appointments set the named columns where id = ...
UpdateAppointmentRow(row, appt) ==
    [f \in DOMAIN row |-> IF f \in DOMAIN appt THEN appt[f] ELSE row[f]]

\* updateAppointment and res.json(updated); when the row is gone it throws
\* "Appointment not found", which the handler does not catch: no response
PatchAppointmentApply(q) ==
    /\ q \in InFlight(apptReq)
    /\ q.op = "patch"
    /\ IF q.id \in ApptIds
       THEN LET updated == UpdateAppointmentRow(appointments[q.id], q.body)
            IN  /\ appointments' = [appointments EXCEPT ![q.id] = updated]
                /\ sent' = Sent("appointment-patch", "none", Response(200, "", Some(updated)))
       ELSE /\ sent' = Sent("appointment-patch", "threw", NoResponse)
            /\ UNCHANGED appointments
    /\ apptReq' = Leave(apptReq, q)
    /\ UNCHANGED << documents, shareVars, pipeVars, apptSerial, totpVars >>

\* getAppointment and the owner check of DELETE
DeleteAppointmentRead(user, id) ==
    /\ BagCardinality(apptReq) < MaxReqs
    /\ LET appt == GetAppointment(id) IN
         IF NotOwned(appt, user)
         THEN /\ sent' = Sent("appointment-delete", "none", ApptNotFound)
              /\ UNCHANGED apptReq
         ELSE /\ apptReq' = Join(apptReq, [op |-> "delete", id |-> Val(appt).id])
              /\ sent' = NothingSent
    /\ UNCHANGED << documents, shareVars, pipeVars, appointments, apptSerial, totpVars >>

\* mutant of DeleteAppointmentRows: deletes the rows of the appointment's owner
DeleteAppointmentRows_OfOwner(rows, id) ==
    [a \in { b \in DOMAIN rows : id \in DOMAIN rows => rows[b].userId # rows[id].userId } |->
        rows[a]]

\* DatabaseStorage.deleteAppointment: delete from appointments where id = ...
DeleteAppointmentRows(rows, id) == [a \in DOMAIN rows \ {id} |-> rows[a]]

\* deleteAppointment and res.sendStatus(204)
DeleteAppointmentApply(q) ==
    /\ q \in InFlight(apptReq)
    /\ q.op = "delete"
    /\ appointments' = DeleteAppointmentRows(appointments, q.id)
    /\ sent' = Sent("appointment-delete", "none", NoContent)
    /\ apptReq' = Leave(apptReq, q)
    /\ UNCHANGED << documents, shareVars, pipeVars, apptSerial, totpVars >>

(***************************************************************************)
(* POST /api/2fa/setup and POST /api/2fa/verify                            *)
(***************************************************************************)
\* secret.base32 of speakeasy.generateSecret
TotpSecrets == { "JBSWY3DP", "KRSXG5A" }

\* data.token of a verify request: the code of a secret when the request
\* runs, or six other digits
TotpTokens == { << "code", s >> : s \in TotpSecrets } \cup { << "code", "" >> }

\* verifyTotp(secret, token): speakeasy.totp.verify accepts the code of the secret
VerifyTotp(secret, token) == token = << "code", secret >>

\* DatabaseStorage.getUser
GetUser(id) == IF id \in DOMAIN users THEN Some(users[id]) ELSE None

TotpAlreadyEnabled == Response(400, "2FA is already enabled", None)

\* setup: getUser and the totpEnabled check; the handler goes on to
\* generateTotpSecret and the awaited generateQrCodeUrl
TotpSetupRead(id, secret) ==
    /\ BagCardinality(totpReq) < MaxReqs
    /\ LET user == GetUser(id) IN
         IF user = None
         THEN /\ sent' = Sent("2fa-setup", "none", Response(404, "Not Found", None))
              /\ UNCHANGED totpReq
         ELSE IF Val(user).totpEnabled
         THEN /\ sent' = Sent("2fa-setup", "none", TotpAlreadyEnabled)
              /\ UNCHANGED totpReq
         ELSE /\ totpReq' = Join(totpReq, [op |-> "setup", id |-> id, secret |-> secret])
              /\ sent' = NothingSent
    /\ UNCHANGED << documents, shareVars, pipeVars, apptVars, users >>

\* updateUser(user.id, { totpSecret: secret.base32, totpEnabled: false, totpVerified: false })
TotpSetupUpdate(row, secret) ==
    [row EXCEPT !.totpSecret = Some(secret), !.totpEnabled = FALSE, !.totpVerified = FALSE]

\* setup: the update and res.json({ secret, qrCode })
TotpSetupApply(q) ==
    /\ q \in InFlight(totpReq)
    /\ q.op = "setup"
    /\ users' = [users EXCEPT ![q.id] = TotpSetupUpdate(@, q.secret)]
    /\ sent' = Sent("2fa-setup", "none", Response(200, "", Some(q.secret)))
    /\ totpReq' = Leave(totpReq, q)
    /\ UNCHANGED << documents, shareVars, pipeVars, apptVars >>

\* verify: getUser, the totpSecret check and verifyTotp
TotpVerifyRead(id, token) ==
    /\ BagCardinality(totpReq) < MaxReqs
    /\ LET user == GetUser(id) IN
         IF user = None \/ Val(user).totpSecret = None
         THEN /\ sent' = Sent("2fa-verify", "none", Response(400, "2FA not set up", None))
              /\ UNCHANGED totpReq
         ELSE IF VerifyTotp(Val(Val(user).totpSecret), token)
         THEN /\ totpReq' = Join(totpReq, [op |-> "verify", id |-> id])
              /\ sent' = NothingSent
         ELSE /\ sent' = Sent("2fa-verify", "none", Response(400, "Invalid token", None))
              /\ UNCHANGED totpReq
    /\ UNCHANGED << documents, shareVars, pipeVars, apptVars, users >>

\* mutant of TotpVerifyUpdate: totpVerified is not written
TotpVerifyUpdate_EnabledOnly(row) == [row EXCEPT !.totpEnabled = TRUE]

\* updateUser(user.id, { totpEnabled: true, totpVerified: true })
TotpVerifyUpdate(row) == [row EXCEPT !.totpEnabled = TRUE, !.totpVerified = TRUE]

\* verify: the update and res.json({ success: true })
TotpVerifyApply(q) ==
    /\ q \in InFlight(totpReq)
    /\ q.op = "verify"
    /\ users' = [users EXCEPT ![q.id] = TotpVerifyUpdate(@)]
    /\ sent' = Sent("2fa-verify", "none", Response(200, "success", None))
    /\ totpReq' = Leave(totpReq, q)
    /\ UNCHANGED << documents, shareVars, pipeVars, apptVars >>

(***************************************************************************)
(* Share links, requests interleaved at every await.                       *)
(***************************************************************************)
Init ==
    /\ documents = << >>
    /\ shareLinks = << >>
    /\ now = 0
    /\ ticks = 0
    /\ shareReq = EmptyBag
    /\ granted = << >>
    /\ revokeAsked = {}
    /\ ocrReq = EmptyBag
    /\ sumReq = EmptyBag
    /\ appointments = << >>
    /\ apptSerial = 0
    /\ apptReq = EmptyBag
    /\ users = [u \in Users |-> NewUser]
    /\ totpReq = EmptyBag
    /\ sent = NothingSent

ShareNext ==
    \/ \E u \in Uploaders, t \in UploadTexts : Upload(u, t)
    \/ \E u \in Users, d \in RequestedDocIds, e \in ExpiresInDaysInputs,
          m \in MaxAccessesInputs : CreateShareLink(u, d, e, m)
    \/ \E t \in Tokens : ShareRead(t)
    \/ \E q \in InFlight(shareReq) : ShareIncrement(q)
    \/ \E s \in TickSteps : Tick(s)

ShareSpec == Init /\ [][ShareNext]_vars

(***************************************************************************)
(* Share links, each request finishing before the next one starts.         *)
(***************************************************************************)
ShareSeqNext ==
    \/ \E u \in Uploaders, t \in UploadTexts : Upload(u, t)
    \/ \E u \in Users, d \in RequestedDocIds, e \in ExpiresInDaysInputs,
          m \in MaxAccessesInputs : CreateShareLink(u, d, e, m)
    \/ \E t \in Tokens : ShareResolve(t)
    \/ \E s \in TickSteps : Tick(s)

ShareSeqSpec == Init /\ [][ShareSeqNext]_vars

(***************************************************************************)
(* The same, with owners asking for the revocation of their links.         *)
(***************************************************************************)
RevokeNext ==
    \/ ShareSeqNext
    \/ \E u \in Users, l \in LinkIds : RevokeShareLink(u, l)

RevokeSpec == Init /\ [][RevokeNext]_vars

(***************************************************************************)
(* The document pipeline, requests interleaved at every await.             *)
(***************************************************************************)
PipelineNext ==
    \/ \E u \in Uploaders, t \in UploadTexts : Upload(u, t)
    \/ \E u \in Users, d \in RequestedDocIds : OcrRead(u, d)
    \/ \E q \in InFlight(ocrReq) : OcrMarkProcessing(q)
    \/ \E q \in InFlight(ocrReq), o \in OcrOutcomes : OcrFinish(q, o)
    \/ \E u \in Users, d \in RequestedDocIds : SumRead(u, d)
    \/ \E q \in InFlight(sumReq) : SumMarkProcessing(q)
    \/ \E q \in InFlight(sumReq), o \in SummaryOutcomes : SumFinish(q, o)

PipelineSpec == Init /\ [][PipelineNext]_vars

(***************************************************************************)
(* The pipeline of the owner's documents when two runs of the worker on    *)
(* one file give different text.                                           *)
(***************************************************************************)
\* what worker.recognize gives in this setting: one of two texts, or an Error
ReextractOutcomes ==
    { Returned(Some(<< "a" >>)), Returned(Some(<< "b" >>)), Threw(TRUE, "Worker failed") }

ReextractNext ==
    \/ \E u \in Uploaders, t \in UploadTexts : Upload(u, t)
    \/ \E u \in Uploaders, d \in DocIds : OcrRead(u, d)
    \/ \E q \in InFlight(ocrReq) : OcrMarkProcessing(q)
    \/ \E q \in InFlight(ocrReq), o \in ReextractOutcomes : OcrFinish(q, o)
    \/ \E u \in Uploaders, d \in DocIds : SumRead(u, d)
    \/ \E q \in InFlight(sumReq) : SumMarkProcessing(q)
    \/ \E q \in InFlight(sumReq), o \in SummaryOutcomes : SumFinish(q, o)

ReextractSpec == Init /\ [][ReextractNext]_vars

(***************************************************************************)
(* Appointments of the uploader, next to documents and share links; every  *)
(* user sends PATCH and DELETE requests.                                   *)
(***************************************************************************)
ApptNext ==
    \/ \E u \in Uploaders, t \in UploadTexts : Upload(u, t)
    \/ \E u \in Uploaders, d \in DocIds : CreateShareLink(u, d, None, None)
    \/ \E u \in Uploaders, b \in NewAppointmentBodies : CreateAppointment(u, b)
    \/ \E u \in Users, a \in RequestedApptIds, b \in PatchBodies : PatchAppointmentRead(u, a, b)
    \/ \E q \in InFlight(apptReq) : PatchAppointmentApply(q)
    \/ \E u \in Users, a \in RequestedApptIds : DeleteAppointmentRead(u, a)
    \/ \E q \in InFlight(apptReq) : DeleteAppointmentApply(q)

ApptSpec == Init /\ [][ApptNext]_vars

(***************************************************************************)
(* The uploader stores documents, share links and appointments and deletes *)
(* appointments; every user sends requests on what is not theirs: ids that *)
(* name nothing, and rows of another user.                                 *)
(***************************************************************************)
\* the id names no row of the table, or a row of another user
NotTheirs(table, id, user) ==
    IF id \in DOMAIN table THEN table[id].userId # user ELSE TRUE

OutsiderNext ==
    \/ \E u \in Uploaders, t \in UploadTexts : Upload(u, t)
    \/ \E u \in Uploaders, d \in DocIds : CreateShareLink(u, d, None, None)
    \/ \E u \in Uploaders, b \in NewAppointmentBodies : CreateAppointment(u, b)
    \/ \E u \in Uploaders, a \in ApptIds : DeleteAppointmentRead(u, a)
    \/ \E q \in InFlight(apptReq) : DeleteAppointmentApply(q)
    \/ \E u \in Users, d \in RequestedDocIds :
          /\ NotTheirs(documents, d, u)
          /\ \/ OcrRead(u, d)
             \/ SumRead(u, d)
             \/ CreateShareLink(u, d, None, None)
             \/ ListShareLinks(u, d)
    \/ \E u \in Users, a \in RequestedApptIds :
          /\ NotTheirs(appointments, a, u)
          /\ \/ \E b \in PatchBodies : PatchAppointmentRead(u, a, b)
             \/ DeleteAppointmentRead(u, a)

OutsiderSpec == Init /\ [][OutsiderNext]_vars

(***************************************************************************)
(* 2FA: setup and verify requests of the users, interleaved at every await. *)
(***************************************************************************)
TotpNext ==
    \/ \E u \in Users, s \in TotpSecrets : TotpSetupRead(u, s)
    \/ \E q \in InFlight(totpReq) : TotpSetupApply(q)
    \/ \E u \in Users, t \in TotpTokens : TotpVerifyRead(u, t)
    \/ \E q \in InFlight(totpReq) : TotpVerifyApply(q)

TotpSpec == Init /\ [][TotpNext]_vars

(***************************************************************************)
(* The search, applied to catalogs of documents drawn from small sets.     *)
(***************************************************************************)
\* documents in a catalog
MaxCatalog == 2

\* document categories, as text
Lab == << "l", "a", "b" >>
Rx == << "r", "x" >>

\* the columns of a document row that the search reads
SearchRow(userId, name, category, tags, uploadedAt, ocrText) ==
    [userId |-> userId, name |-> name, category |-> category, tags |-> tags,
     uploadedAt |-> uploadedAt, ocrText |-> ocrText]

\* the tables of at most MaxCatalog rows, in every order
Catalogs(rows) == UNION { [1 .. n -> rows] : n \in 0 .. MaxCatalog }

\* a server that holds the catalog and has answered nothing yet
SearchInit(rows) ==
    /\ documents \in Catalogs(rows)
    /\ shareLinks = << >>
    /\ now = 0
    /\ ticks = 0
    /\ shareReq = EmptyBag
    /\ granted = << >>
    /\ revokeAsked = {}
    /\ ocrReq = EmptyBag
    /\ sumReq = EmptyBag
    /\ appointments = << >>
    /\ apptSerial = 0
    /\ apptReq = EmptyBag
    /\ users = [u \in Users |-> NewUser]
    /\ totpReq = EmptyBag
    /\ sent = NothingSent

\* documents that differ in owner and tags
DocTags == { << "a" >>, << "b" >>, << "b", "a", "c" >> }
TagRows ==
    { SearchRow(u, << "c" >>, Lab, t, 0, None) : u \in Users, t \in DocTags }

\* JSON.parse(tags): absent, or the array the client sent
TagsInputs == { None, Some(<< >>), Some(<< "a" >>), Some(<< "a", "b" >>), Some(<< "b", "a" >>) }

TagSearchInit == SearchInit(TagRows)

TagSearchNext ==
    \E u \in Users, t \in TagsInputs :
        Search(SearchRequest(u, None, None, t, None, None, 0))

TagSearchSpec == TagSearchInit /\ [][TagSearchNext]_vars

(***************************************************************************)
(* The search by date: documents uploaded around the days that are picked. *)
(***************************************************************************)
\* the days the calendar of the client offers
PickedDays == { 1, 2 }

\* uploadedAt: the first and the last millisecond of day 1 in each zone, the
\* milliseconds next to them, and noon
UploadInstants ==
    { DayMs + 12 * HourMs } \cup
    UNION { { ToISOString(1, z) - 1, ToISOString(1, z),
              ToISOString(2, z) - 1, ToISOString(2, z) } : z \in ZoneOffsets }

DateRows == { SearchRow(1, << "c" >>, Lab, << >>, t, None) : t \in UploadInstants }

\* startDate or endDate of the query: absent, or midnight of a picked day in
\* the zone of the browser
DateInputs(zone) == { None } \cup { Some(ToISOString(d, zone)) : d \in PickedDays }

DateSearchInit == SearchInit(DateRows)

DateSearchNext ==
    \E client \in ZoneOffsets, server \in ZoneOffsets :
        \E s \in DateInputs(client), e \in DateInputs(client) :
            Search(SearchRequest(1, None, None, None, s, e, server))

DateSearchSpec == DateSearchInit /\ [][DateSearchNext]_vars

(***************************************************************************)

(* The search with every filter: documents that pass or fail each of them. *)
(***************************************************************************)
\* name and ocrText: the name holds "ab", the text holds it, neither does
NamesAndTexts ==
    { << << "A", "b" >>, None >>,
      << << "c" >>, Some(<< "c", "A", "b" >>) >>,
      << << "c" >>, None >> }

Noon(day) == day * DayMs + 12 * HourMs

\* the rows of user 1 in every combination, and one row of user 2 that
\* passes every filter
FilterRows ==
    { SearchRow(1, nt[1], c, t, Noon(d), nt[2]) :
        nt \in NamesAndTexts, c \in { Lab, Rx },
        t \in { << "a" >>, << "b" >> }, d \in PickedDays }
    \cup { SearchRow(2, << "A", "b" >>, Lab, << "a" >>, Noon(1), None) }

\* the query parameters: absent, empty, or a value some documents match
QueryInputs == { None, Some(<< >>), Some(<< "a", "B" >>) }
CategoryInputs == { None, Some(Lab) }
TagFilterInputs == { None, Some(<< "a" >>) }
DayInputs == { None, Some(ToISOString(1, 0)) }

FilterSearchInit == SearchInit(FilterRows)

FilterSearchNext ==
    \E u \in Users, q \in QueryInputs, c \in CategoryInputs,
       t \in TagFilterInputs, s \in DayInputs, e \in DayInputs :
        Search(SearchRequest(u, q, c, t, s, e, 0))

FilterSearchSpec == FilterSearchInit /\ [][FilterSearchNext]_vars

(***************************************************************************)

(* Share links: properties.                                                *)
(***************************************************************************)
\* the link a token names, as a set of at most one id
LinkOfToken(token) == { l \in LinkIds : shareLinks[l].token = token }

\* a link with an access ceiling N >= 1
HasCeiling(link) == link.maxAccesses # None /\ Val(link.maxAccesses) >= 1

\* the resolution rule of the data model: not yet expired, accesses remaining
NotYetExpired(link, t) == link.expiresAt = None \/ t < Val(link.expiresAt)
AccessesRemain(link) ==
    link.maxAccesses = None \/ link.accessCount < Val(link.maxAccesses)
Resolvable(link, t) == NotYetExpired(link, t) /\ AccessesRemain(link)

\* C1: for an unexpired share link with maxAccesses = N >= 1, under any interleaving of
\* the read-and-check steps and the increment steps of concurrent requests, at
\* most N requests are answered with the document and accessCount never
\* exceeds N.
C1_AtMostNGranted ==
    \A l \in LinkIds :
        (HasCeiling(shareLinks[l]) /\ NotYetExpired(shareLinks[l], now)) =>
            /\ granted[l] <= Val(shareLinks[l].maxAccesses)
            /\ shareLinks[l].accessCount <= Val(shareLinks[l].maxAccesses)

\* C2: when the requests on an unexpired link with maxAccesses = N >= 1 run one
\* at a time, a request made while accessCount < N is answered with the linked
\* document and raises accessCount by exactly 1, and a request made afterwards
\* is answered NotFound and leaves accessCount at N: the first N requests
\* succeed and every later one fails.
C2_SequentialCeiling ==
    [][\A t \in Tokens :
         ShareResolve(t) =>
            \A l \in LinkOfToken(t) :
               LET link == shareLinks[l]
                   N == Val(link.maxAccesses)
               IN  (HasCeiling(link) /\ NotYetExpired(link, now)) =>
                      IF link.accessCount < N
                      THEN /\ sent'.response =
                                 Response(200, "", Some(documents[link.documentId]))
                           /\ shareLinks'[l].accessCount = link.accessCount + 1
                           /\ granted'[l] = granted[l] + 1
                      ELSE /\ sent'.response = SharedNotFound
                           /\ link.accessCount = N
                           /\ shareLinks'[l].accessCount = N
                           /\ granted'[l] = granted[l]]_vars

\* C2 witness: a link with ceiling 2 was resolved twice and the next request
\* on it was answered NotFound.
C2_Witness ==
    /\ sent.route = "shared"
    /\ sent.cause = "exhausted"
    /\ sent.response = SharedNotFound
    /\ \E l \in LinkIds :
          /\ shareLinks[l].maxAccesses = Some(2)
          /\ shareLinks[l].accessCount = 2
          /\ granted[l] = 2
          /\ NotYetExpired(shareLinks[l], now)

\* C3: a request whose check runs when the link's expiresAt is earlier than the
\* current time is answered NotFound, whatever maxAccesses and accessCount
\* are and also when it is the first request on the link, and it leaves the
\* link's accessCount unchanged.
C3_ExpiredAlwaysFails ==
    [][\A l \in LinkIds :
         ( /\ shareLinks[l].expiresAt # None
           /\ Val(shareLinks[l].expiresAt) < now
           /\ ShareRead(shareLinks[l].token) ) =>
               /\ sent'.response = SharedNotFound
               /\ shareReq' = shareReq
               /\ shareLinks' = shareLinks
               /\ granted' = granted]_vars

\* C3 witness: the first request on a link was made after its expiry and was
\* answered NotFound.
C3_Witness ==
    /\ sent.route = "shared"
    /\ sent.cause = "expired"
    /\ sent.response = SharedNotFound
    /\ LinkIds # {}
    /\ \A l \in LinkIds :
          /\ shareLinks[l].expiresAt # None
          /\ Val(shareLinks[l].expiresAt) < now
          /\ shareLinks[l].accessCount = 0

\* C4: a request that passes the checks of getSharedDocument (and so returns
\* the document) found the link resolvable: expiresAt null or now strictly
\* before expiresAt, and maxAccesses null or accessCount < maxAccesses,
\* including now = expiresAt and a stored maxAccesses of 0.
C4_GrantedOnlyWhileResolvable ==
    [][\A t \in Tokens :
         (ShareRead(t) /\ shareReq' # shareReq) =>
            \A l \in LinkOfToken(t) : Resolvable(shareLinks[l], now)]_vars

\* C5: a request on a token that does not exist, on an expired link and on a
\* link at its access ceiling get one and the same answer, status 404 with
\* the same message, so the three cases cannot be told apart.
C5_FailuresIndistinguishable ==
    (sent.route = "shared" /\ sent.cause \in {"absent", "expired", "exhausted"}) =>
        sent.response = SharedNotFound

\* C5 witness: a request on a token of no link is answered while a link
\* exists that is past its expiry or at its ceiling.
C5_Witness ==
    /\ sent.route = "shared"
    /\ sent.cause = "absent"
    /\ \E l \in LinkIds : CheckShareLink(shareLinks[l], now) \in {"expired", "exhausted"}

\* C6: after the owner of the document has revoked a link, every later request
\* on the link's token is answered NotFound.
C6_RevokedNeverResolves ==
    [][\A t \in Tokens :
         (ShareResolve(t) /\ LinkOfToken(t) \cap revokeAsked # {}) =>
            sent'.response = SharedNotFound]_vars

(***************************************************************************)
(* The document pipeline: properties.                                      *)
(***************************************************************************)
\* null, empty or whitespace-only
Blank(text) == text = None \/ Trim(Val(text)) = << >>

\* the process-ocr requests on document d that have set it to processing
Recognizing(d) == CopiesIn([pc |-> "recognizing", id |-> d], ocrReq)

\* C7: in every reachable state no document has summaryStatus = processing
\* while its ocrText is null, empty or whitespace-only.
C7_NoSummaryOfBlankText ==
    \A d \in DocIds :
        documents[d].summaryStatus = "processing" => ~Blank(documents[d].ocrText)

\* C7 witness: a summarization is in progress.
C7_Witness ==
    \E d \in DocIds, q \in InFlight(sumReq) :
        /\ q.id = d
        /\ q.pc = "summarizing"
        /\ documents[d].summaryStatus = "processing"

\* C8: a process-ocr request that has set ocrStatus to processing writes
\* completed or error in the step that answers it, whatever the worker
\* does; so ocrStatus is processing only while such a request is in flight.
C8_ExtractionReachesTerminal ==
    /\ [](\A d \in DocIds : documents[d].ocrStatus = "processing" => Recognizing(d) >= 1)
    /\ [][\A q \in InFlight(ocrReq), o \in OcrOutcomes :
            OcrFinish(q, o) =>
               /\ documents'[q.id].ocrStatus \in {"completed", "error"}
               /\ sent'.route = "ocr"
               /\ sent'.response.status \in {200, 500}]_vars

\* C8 witness: the worker failed, the request was answered, and the document
\* is left in error with no request in flight.
C8_Witness ==
    /\ sent.route = "ocr"
    /\ sent.response.status = 500
    /\ ocrReq = EmptyBag
    /\ \E d \in DocIds : documents[d].ocrStatus = "error"

\* C9: a process-ocr request by the owner on a document whose ocrStatus is
\* processing is refused (InvalidState): it is answered with an error, goes no
\* further, and the document is unchanged.
C9_ProcessingRefused ==
    [][\A u \in Users, d \in DocIds :
         (OcrRead(u, d) /\ documents[d].userId = u /\ documents[d].ocrStatus = "processing") =>
            /\ ocrReq' = ocrReq
            /\ documents' = documents
            /\ sent'.route = "ocr"
            /\ sent'.response.status >= 400]_vars

\* C10: of the concurrent process-ocr requests on one document at most one has
\* made the transition to processing and has the worker running.
C10_SingleExtraction ==
    \A d \in DocIds : Recognizing(d) <= 1

\* the worker failed, or gave empty or whitespace-only text
ExtractionFailed(outcome) == outcome.threw \/ Blank(outcome.value)

C12_SummaryGatedByCompleted ==
    [][\A u \in Users, d \in DocIds :
         (SumRead(u, d) /\ documents[d].userId = u /\ documents[d].ocrStatus # "completed") =>
            /\ sumReq' = sumReq
            /\ sent'.route = "summarize"
            /\ sent'.response.status = 400]_vars

\* C13: a summarize request by the owner on a document whose ocrText is
\* missing or blank is answered 400 (precondition), changes no field of the
\* document, and does not go on to the completion call.
C13_NoTextRefused ==
    [][\A u \in Users, d \in DocIds :
         (SumRead(u, d) /\ documents[d].userId = u /\ Blank(documents[d].ocrText)) =>
            /\ sent' = Sent("summarize", "none", NoOcrText)
            /\ sent'.response.status = 400
            /\ sumReq' = sumReq
            /\ documents' = documents]_vars

\* C13 witness: the extraction of a document failed, it holds no text, and a
\* summarize request on it was answered 400.
C13_Witness ==
    /\ sent = Sent("summarize", "none", NoOcrText)
    /\ sumReq = EmptyBag
    /\ \E d \in DocIds :
          /\ documents[d].ocrStatus = "error"
          /\ documents[d].ocrText = None
          /\ documents[d].summaryStatus = "none"

\* the summarize requests on document d that have set it to processing
Summarizing(d) == { q \in InFlight(sumReq) : q.id = d /\ q.pc = "summarizing" }

\* C14: a summarize request that has set summaryStatus to processing writes a
\* terminal status in the step that answers it: completed with the summary
\* stored when the completion has content, error with summaryError set when
\* the completion fails or has no content; so summaryStatus is processing
\* only while such a request is in flight.
C14_SummarizationReachesTerminal ==
    /\ [](\A d \in DocIds :
            documents[d].summaryStatus = "processing" => Summarizing(d) # {})
    /\ [][\A q \in InFlight(sumReq), o \in SummaryOutcomes :
            SumFinish(q, o) =>
               LET before == documents[q.id]
                   after == documents'[q.id]
               IN  IF o = "content"
                   THEN /\ after.summaryStatus = "completed"
                        /\ after.summary # None
                        /\ after.summaryError = None
                        /\ sent'.response = Response(200, "", Some(after))
                   ELSE /\ after.summaryStatus = "error"
                        /\ after.summaryError # None
                        /\ Val(after.summaryError) # ""
                        /\ after.summary = before.summary
                        /\ sent'.response.status = 500]_vars

\* C14 witness: the completion had no content; the request is answered and
\* the document is left in error with the message stored.
C14_Witness ==
    /\ sent.route = "summarize"
    /\ sent.response = Response(500, "Failed to generate summary", None)
    /\ sumReq = EmptyBag
    /\ \E d \in DocIds :
          /\ documents[d].summaryStatus = "error"
          /\ documents[d].summaryError = Some("Failed to generate summary")

\* C15: an upload that carries text extracted by the caller stores the
\* document with ocrStatus = completed and that text as ocrText; an upload
\* without it stores ocrStatus = pending and ocrText = null.
C15_PrecomputedTextStored ==
    [][\A u \in Uploaders, t \in UploadTexts :
         Upload(u, t) =>
            LET row == documents'[Cardinality(DocIds) + 1]
            IN  IF t # None
                THEN row.ocrStatus = "completed" /\ row.ocrText = t
                ELSE row.ocrStatus = "pending" /\ row.ocrText = None]_vars

\* C16: an extraction whose worker returns non-blank text T ends with
\* ocrText = T, ocrStatus = completed and ocrError null; a summarization whose
\* completion returns S ends with summary = S, summaryStatus = completed and
\* summaryError null, and leaves ocrText as it was.
C16_RoundTrip ==
    [][/\ \A q \in InFlight(ocrReq), o \in OcrOutcomes :
            (OcrFinish(q, o) /\ ~ExtractionFailed(o)) =>
               /\ documents'[q.id].ocrText = o.value
               /\ documents'[q.id].ocrStatus = "completed"
               /\ documents'[q.id].ocrError = None
               /\ sent'.response = Response(200, "", Some(documents'[q.id]))
       /\ \A q \in InFlight(sumReq) :
            SumFinish(q, "content") =>
               /\ documents'[q.id].summary = Some(SummaryOf(Val(q.ocrText)))
               /\ documents'[q.id].summaryStatus = "completed"
               /\ documents'[q.id].summaryError = None
               /\ documents'[q.id].ocrText = documents[q.id].ocrText
               /\ sent'.response = Response(200, "", Some(documents'[q.id]))]_vars

\* C16 witness: upload, extraction of " b", summarization of it, all done.
C16_Witness ==
    /\ ocrReq = EmptyBag
    /\ sumReq = EmptyBag
    /\ sent.route = "summarize"
    /\ \E d \in DocIds :
          /\ documents[d].ocrText = Some(<< " ", "b" >>)
          /\ documents[d].ocrStatus = "completed"
          /\ documents[d].ocrError = None
          /\ documents[d].summary = Some(SummaryOf(<< " ", "b" >>))
          /\ documents[d].summaryStatus = "completed"
          /\ documents[d].summaryError = None
          /\ sent.response = Response(200, "", Some(documents[d]))

(***************************************************************************)
(* The search: properties.                                                 *)
(***************************************************************************)
\* the tags of an array, as a set
TagSet(arr) == { arr[i] : i \in 1 .. Len(arr) }

\* the answered search request and the documents it returned
Asked == sent.cause
Found == sent.response.document

\* the caller's own documents, in table order
OwnDocuments == SelectSeq(documents, LAMBDA doc : doc.userId = Asked.user)

\* the search names tags and no other filter
OnlyTagsAsked ==
    /\ sent.route = "search"
    /\ Asked.tags # None
    /\ ~TruthyText(Asked.query)
    /\ ~TruthyText(Asked.category)
    /\ Asked.startDate = None
    /\ Asked.endDate = None

\* C17: a search with a tag set returns only documents whose tags contain
\* every requested tag, whatever the order of the tags, and with no other
\* filter it returns every such document of the caller.
C17_TagsAllRequired ==
    /\ (sent.route = "search" /\ Asked.tags # None) =>
          \A i \in 1 .. Len(Found) : TagSet(Val(Asked.tags)) \subseteq TagSet(Found[i].tags)
    /\ OnlyTagsAsked =>
          Found = SelectSeq(OwnDocuments,
                            LAMBDA doc : TagSet(Val(Asked.tags)) \subseteq TagSet(doc.tags))

\* C17 witness: the caller has a document tagged a and one tagged b, a, c;
\* the search for the tags a, b returned the second one only.
C17_Witness ==
    /\ sent.route = "search"
    /\ Asked.tags = Some(<< "a", "b" >>)
    /\ Len(documents) = 2
    /\ documents[1].userId = Asked.user
    /\ documents[1].tags = << "a" >>
    /\ documents[2].userId = Asked.user
    /\ documents[2].tags = << "b", "a", "c" >>
    /\ Found = << documents[2] >>

\* the search names both dates and no other filter
OnlyDatesAsked ==
    /\ sent.route = "search"
    /\ Asked.startDate # None
    /\ Asked.endDate # None
    /\ ~TruthyText(Asked.query)
    /\ ~TruthyText(Asked.category)
    /\ Asked.tags = None

\* the first and the last millisecond of a day, for the one who picked it
StartOfDay(day, zone) == day * DayMs - zone
EndOfDay(day, zone) == (day + 1) * DayMs - 1 - zone

\* C18: a search from startDate = day S to endDate = day E returns exactly
\* the caller's documents with start-of-day(S) <= uploadedAt <=
\* end-of-day(E), both inclusive; with S = E = D1 these are the documents
\* uploaded on day D1, from its first instant through 23:59:59.999.
C18_DateRangeWholeDays ==
    \A s \in PickedDays, e \in PickedDays, zone \in ZoneOffsets :
        ( /\ OnlyDatesAsked
          /\ Asked.startDate = Some(StartOfDay(s, zone))
          /\ Asked.endDate = Some(StartOfDay(e, zone)) ) =>
            Found = SelectSeq(OwnDocuments,
                              LAMBDA doc : /\ StartOfDay(s, zone) <= doc.uploadedAt
                                           /\ doc.uploadedAt <= EndOfDay(e, zone))

\* the same letter, in upper or in lower case
SameLetter(x, y) ==
    x = y \/ { x, y } \in { { "a", "A" }, { "b", "B" }, { "c", "C" } }

\* sub occurs in str when case is ignored
OccursIgnoringCase(sub, str) ==
    \E i \in 0 .. (Len(str) - Len(sub)) :
        \A j \in 1 .. Len(sub) : SameLetter(str[i + j], sub[j])

\* a parameter that is present: given, and not the empty string
Present(param) == param # None /\ Val(param) # << >>

\* the document satisfies every filter that the answered request names
SatisfiesAsked(doc) ==
    /\ Present(Asked.query) =>
          \/ OccursIgnoringCase(Val(Asked.query), doc.name)
          \/ doc.ocrText # None /\ OccursIgnoringCase(Val(Asked.query), Val(doc.ocrText))
    /\ Present(Asked.category) => doc.category = Val(Asked.category)
    /\ Asked.tags # None => TagSet(Val(Asked.tags)) \subseteq TagSet(doc.tags)
    /\ Asked.startDate # None => Val(Asked.startDate) <= doc.uploadedAt
    /\ Asked.endDate # None =>
          \E e \in PickedDays :
              /\ Val(Asked.endDate) = StartOfDay(e, Asked.zone)
              /\ doc.uploadedAt <= EndOfDay(e, Asked.zone)

\* C19: the result of a search is exactly the caller's own documents, in
\* table order, that satisfy every filter the request names (query: in name
\* or ocrText, case ignored; category: equal; tags: all; dates: in range); an
\* absent filter removes nothing and no document of another user is returned.
C19_SearchIsConjunctiveFilter ==
    sent.route = "search" =>
        /\ Found = SelectSeq(OwnDocuments, SatisfiesAsked)
        /\ \A i \in 1 .. Len(Found) : Found[i].userId = Asked.user
        /\ ( /\ ~Present(Asked.query) /\ ~Present(Asked.category) /\ Asked.tags = None
             /\ Asked.startDate = None /\ Asked.endDate = None ) =>
              Found = OwnDocuments

\* C19 witness: a request with every filter, answered with the caller's
\* second document only, whose ocrText holds the query; the first document
\* is another user's.
C19_Witness ==
    /\ sent.route = "search"
    /\ Present(Asked.query)
    /\ Present(Asked.category)
    /\ Asked.tags # None
    /\ Asked.startDate # None
    /\ Asked.endDate # None
    /\ Len(documents) = 2
    /\ documents[1].userId # Asked.user
    /\ documents[2].userId = Asked.user
    /\ documents[2].ocrText # None
    /\ Found = << documents[2] >>

(***************************************************************************)
(* Share links: creation.                                                  *)
(***************************************************************************)
\* C20: createShareLink by the owner of the document stores a link with
\* accessCount = 0 and the requested documentId, with expiresAt = now +
\* expiresInDays days for every expiresInDays that is provided, and with
\* expiresAt = null only when expiresInDays is not provided.
C20_CreatedLinkFields ==
    [][\A u \in Users, d \in RequestedDocIds, e \in ExpiresInDaysInputs,
          m \in MaxAccessesInputs :
         (CreateShareLink(u, d, e, m) /\ ~NotOwned(GetDocument(d), u)) =>
            LET link == shareLinks'[Cardinality(LinkIds) + 1]
            IN  /\ link.accessCount = 0
                /\ link.documentId = d
                /\ e # None => link.expiresAt = Some(now + Val(e) * DayMs)
                /\ e = None => link.expiresAt = None]_vars

(***************************************************************************)
(* The document pipeline: the status tracks.                               *)
(***************************************************************************)
\* the moves of the extraction track: pending -> processing -> completed or
\* error, and the retries error -> processing and completed -> processing
ExtractionTrack ==
    { << "pending", "processing" >>, << "processing", "completed" >>,
      << "processing", "error" >>, << "error", "processing" >>,
      << "completed", "processing" >> }

\* C23: with process-ocr requests interleaved on one document, every change
\* of ocrStatus is a move of the extraction track: never back to pending,
\* never from completed to error or from error to completed directly, never
\* from pending to completed or error without processing in between.
C23_ExtractionTransitions ==
    [][\A d \in DocIds :
         documents'[d].ocrStatus # documents[d].ocrStatus =>
            << documents[d].ocrStatus, documents'[d].ocrStatus >> \in ExtractionTrack]_vars

\* the moves of the summary track: none -> processing -> completed or error,
\* and the retry error -> processing
SummaryTrack ==
    { << "none", "processing" >>, << "processing", "completed" >>,
      << "processing", "error" >>, << "error", "processing" >> }

\* C24: every change of summaryStatus is a move of the summary track; in
\* particular a summarize request on a document whose summaryStatus is
\* completed or processing never moves it (back) to processing.
C24_SummaryTransitions ==
    [][\A d \in DocIds :
         /\ documents'[d].summaryStatus # documents[d].summaryStatus =>
               << documents[d].summaryStatus, documents'[d].summaryStatus >> \in SummaryTrack
         /\ \A q \in InFlight(sumReq) :
               ( /\ SumMarkProcessing(q)
                 /\ q.id = d
                 /\ documents[d].summaryStatus \in { "completed", "processing" } ) =>
                     documents' = documents]_vars

\* C25: in every reachable state, with requests interleaved on one document,
\* ocrError is non-null only if ocrStatus = error, and summaryError is
\* non-null only if summaryStatus = error.
C25_ErrorOnlyInErrorState ==
    \A d \in DocIds :
        /\ documents[d].ocrError # None => documents[d].ocrStatus = "error"
        /\ documents[d].summaryError # None => documents[d].summaryStatus = "error"

\* C25 witness: of two overlapping re-extractions of a document one has failed
\* and the other is still running; the summarization of the text it holds
\* failed as well; both statuses are error and both messages are stored.
C25_Witness ==
    \E d \in DocIds :
        /\ Recognizing(d) = 1
        /\ sent.route = "summarize"
        /\ sent.response.status = 500
        /\ documents[d].ocrStatus = "error"
        /\ documents[d].ocrError # None
        /\ documents[d].ocrText # None
        /\ documents[d].summaryStatus = "error"
        /\ documents[d].summaryError # None

\* C28: in every reachable state, with process-ocr requests interleaved on one
\* document, ocrStatus = completed implies that ocrText is non-null and not
\* whitespace-only: blank output of the worker is never stored as a completed
\* extraction.
C28_CompletedHasText ==
    \A d \in DocIds :
        documents[d].ocrStatus = "completed" => ~Blank(documents[d].ocrText)

\* C28 witness: of two overlapping extractions one was answered with the
\* completed document and its text while the other is still running.
C28_Witness ==
    \E d \in DocIds :
        /\ Recognizing(d) = 1
        /\ documents[d].ocrStatus = "completed"
        /\ documents[d].ocrText = Some(<< " ", "b" >>)
        /\ sent = Sent("ocr", "none", Response(200, "", Some(documents[d])))

\* C29: once a successful extraction has set ocrText it is never null or
\* blank again: the start of a re-extraction and a re-extraction that fails
\* leave the text as it was; and a summarize request by the owner on a
\* document with ocrStatus = error or processing that holds such text passes
\* the text check and goes on.
C29_TextSurvivesReextraction ==
    [][\A d \in DocIds :
         /\ ~Blank(documents[d].ocrText) => ~Blank(documents'[d].ocrText)
         /\ documents'[d].ocrText # documents[d].ocrText =>
               \A q \in InFlight(ocrReq) :
                   /\ ~OcrMarkProcessing(q)
                   /\ \A o \in OcrOutcomes : OcrFinish(q, o) => ~ExtractionFailed(o)
         /\ \A u \in Users :
               ( /\ documents[d].userId = u
                 /\ documents[d].ocrStatus \in { "error", "processing" }
                 /\ ~Blank(documents[d].ocrText)
                 /\ SumRead(u, d) ) =>
                     /\ sumReq' = Join(sumReq, [pc |-> "read", id |-> d,
                                                ocrText |-> documents[d].ocrText])
                     /\ sent' = NothingSent]_vars

\* C29 witness: the document holds the text of its first extraction, a
\* re-extraction has failed, no extraction is running, and the summarize
\* requests in flight passed the text check, the later one with ocrStatus =
\* error.
C29_Witness ==
    \E d \in DocIds :
        /\ documents[d].ocrStatus = "error"
        /\ documents[d].ocrError # None
        /\ documents[d].ocrText = Some(<< " ", "b" >>)
        /\ ocrReq = EmptyBag
        /\ CopiesIn([pc |-> "read", id |-> d, ocrText |-> documents[d].ocrText], sumReq) = MaxReqs

(***************************************************************************)
(* Share links: the access counter.                                        *)
(***************************************************************************)
\* C27: in every reachable state, under every interleaving of the reads and
\* the increments of concurrent requests, a link's accessCount is the number
\* of requests on its token that were answered with the document (a request
\* counts once its increment is applied): no increment is lost, a request
\* that fails a check adds nothing, and accessCount never decreases.
C27_AccessCountIsGrantCount ==
    /\ [](\A l \in LinkIds : shareLinks[l].accessCount = granted[l])
    /\ [][\A l \in LinkIds :
            /\ shareLinks'[l].accessCount >= shareLinks[l].accessCount
            /\ (sent'.route = "shared" /\ sent'.response.status # 200) =>
                  shareLinks'[l].accessCount = shareLinks[l].accessCount]_vars

\* C27 witness: two requests on a link of ceiling 1 read it before either
\* increment was applied; both were answered with the document and the
\* counter stands at 2.
C27_Witness ==
    \E l \in LinkIds :
        /\ shareLinks[l].maxAccesses = Some(1)
        /\ shareLinks[l].accessCount = 2
        /\ granted[l] = 2
        /\ sent.route = "shared"
        /\ sent.response.status = 200

\* C26: whenever a summarize request stores a summary with summaryStatus =
\* completed, the summary was generated from the ocrText the document holds
\* at that moment, also when a re-extraction of the document completes between
\* the request's read of ocrText and its final write.
C26_SummaryOfCurrentText ==
    [][\A q \in InFlight(sumReq) :
         SumFinish(q, "content") =>
            /\ documents'[q.id].summaryStatus = "completed"
            /\ documents'[q.id].ocrText # None
            /\ documents'[q.id].summary =
                  Some(SummaryOf(Val(documents'[q.id].ocrText)))]_vars

(***************************************************************************)
(* Appointments: properties.                                               *)
(***************************************************************************)
\* C21: the delete of an appointment removes that appointment and nothing
\* else: the table of documents, and so every document its documentIds list,
\* every other appointment and every share link are unchanged afterwards.
C21_DeleteRemovesOnlyThatAppointment ==
    [][\A q \in InFlight(apptReq) :
         (q.op = "delete" /\ DeleteAppointmentApply(q)) =>
            /\ DOMAIN appointments' = ApptIds \ {q.id}
            /\ \A a \in ApptIds \ {q.id} : appointments'[a] = appointments[a]
            /\ documents' = documents
            /\ q.id \in ApptIds =>
                  \A d \in DocIds :
                      appointments[q.id].documentIds = Some(<< d >>) =>
                          d \in DOMAIN documents' /\ documents'[d] = documents[d]
            /\ shareLinks' = shareLinks]_vars

\* C21 witness: of two appointments that list document 1 the first was
\* deleted; the second, the document and the share link on it are there.
C21_Witness ==
    /\ sent = Sent("appointment-delete", "none", NoContent)
    /\ apptSerial = 2
    /\ ApptIds = {2}
    /\ appointments[2].documentIds = Some(<< 1 >>)
    /\ 1 \in DocIds
    /\ \E l \in LinkIds : shareLinks[l].documentId = 1

(***************************************************************************)
(* Ownership: requests on what the caller does not own.                    *)
(***************************************************************************)
\* nothing stored changes and no request goes on to a later step of its
\* handler, where the worker, the completion API or a write is called
NothingDone == UNCHANGED << documents, shareVars, pipeVars, apptVars, totpVars >>

\* C22: process-ocr, summarize, share-link creation and share-link listing on
\* a document, and PATCH and DELETE on an appointment, answer a caller who
\* does not own the entity exactly as they answer for an id that names no
\* entity: 404 with the same body; such a request changes nothing stored,
\* creates no share link and does not go on to an external service.
C22_NotOwnedIsNotFound ==
    [][/\ \A u \in Users, d \in RequestedDocIds :
            ( /\ NotTheirs(documents, d, u)
              /\ \/ OcrRead(u, d)
                 \/ SumRead(u, d)
                 \/ CreateShareLink(u, d, None, None)
                 \/ ListShareLinks(u, d) ) =>
                  /\ sent'.response = DocNotFound
                  /\ sent'.response.status = 404
                  /\ NothingDone
       /\ \A u \in Users, a \in RequestedApptIds :
            ( /\ NotTheirs(appointments, a, u)
              /\ \/ \E b \in PatchBodies : PatchAppointmentRead(u, a, b)
                 \/ DeleteAppointmentRead(u, a) ) =>
                  /\ sent'.response = ApptNotFound
                  /\ sent'.response.status = 404
                  /\ NothingDone]_vars

\* C22 witness: a user who owns no document asked for the share links of a
\* stored document of another user that has a share link, and was answered
\* as for a document that is not stored.
C22_Witness ==
    /\ sent.route = "share-list"
    /\ sent.response = DocNotFound
    /\ sent.cause.id \in DocIds
    /\ documents[sent.cause.id].userId # sent.cause.user
    /\ GetDocumentShareLinks(sent.cause.id) # {}
    /\ ApptIds # {}

(***************************************************************************)
(* 2FA: properties.                                                        *)
(***************************************************************************)
\* C30: in every state that setup and verify requests reach, in sequence or
\* interleaved, totpEnabled = true implies that totpSecret is non-null and
\* totpVerified = true; a setup request that finds totpEnabled = true is
\* answered 400 and changes nothing; a verify request whose token is not
\* valid for the stored secret is answered 400 and changes nothing.
C30_TotpEnabledIsVerified ==
    /\ [](\A u \in DOMAIN users :
            users[u].totpEnabled =>
                users[u].totpSecret # None /\ users[u].totpVerified)
    /\ [][/\ \A u \in Users, s \in TotpSecrets :
               (users[u].totpEnabled /\ TotpSetupRead(u, s)) =>
                   /\ sent'.response = TotpAlreadyEnabled
                   /\ users' = users
                   /\ totpReq' = totpReq
          /\ \A u \in Users, t \in TotpTokens :
               ( /\ \A s \in TotpSecrets : users[u].totpSecret = Some(s) => ~VerifyTotp(s, t)
                 /\ TotpVerifyRead(u, t) ) =>
                   /\ sent'.response.status = 400
                   /\ users' = users
                   /\ totpReq' = totpReq]_vars

\* C30 witness: a user has 2FA enabled with a secret and verified, and a setup
\* request for a user was just answered that 2FA is already enabled, while
\* another 2FA request is in flight.
C30_Witness ==
    /\ sent = Sent("2fa-setup", "none", TotpAlreadyEnabled)
    /\ totpReq # EmptyBag
    /\ \E u \in Users :
          /\ users[u].totpEnabled
          /\ users[u].totpVerified
          /\ users[u].totpSecret # None

====
